---- MODULE Spec2Model ----
(***************************************************************************)
(* The /parlay research job of cogs/parlay.py: the sqlite usage ledger,    *)
(* the command coroutine (admission, reservation, status emissions, the    *)
(* wait on the worker with its deadline, finalisation), the worker task    *)
(* running utils/parlay_research.run_deep_research in a thread, and the    *)
(* heartbeat task; the retry loop of _call_deep_research run by the worker *)
(* thread.                                                                 *)
(*                                                                         *)
(* The event loop is single threaded: the code between two awaits of one   *)
(* coroutine is one atomic step, and every action below runs one coroutine *)
(* from the completion of the await it is suspended at up to its next      *)
(* await (or its end).  An await of a Discord call completes either        *)
(* normally or by raising.                                                 *)
(***************************************************************************)
EXTENDS Integers, Sequences, FiniteSets, TLC

\* ---------------------------------------------------------------- bounds
MaxJobs == 2          \* invocations of /parlay in one run
MaxBeats == 1         \* heartbeat emissions of one job
MaxDay == 2           \* ET dates the run spans (1..MaxDay)

\* ------------------------------------------------------ program constants
DAILY_MAX_PARLAYS == 3

Users == {"u1", "u2"}
Deliver == {"dm", "channel"}
\* the query option of /parlay: words, white space only, or nothing
Queries == {<<"a">>, <<" ">>, <<>>}
Jobs == 1..MaxJobs
Days == 1..MaxDay

\* Rows the database file holds when the cog is constructed: successful
\* runs of user u1 on day 1, made by earlier sequential runs of the bot.
MaxPrior == DAILY_MAX_PARLAYS - 1
PriorIds == {0 - k : k \in 1..MaxPrior}
JobIds == Jobs \cup PriorIds

NoRow == [status |-> "absent"]
NoResult == [result |-> FALSE, err |-> FALSE, kind |-> "none", text |-> <<>>]

\* Exceptions the external call client.responses.create raises.
Errors == {"e1", "e2"}

VARIABLES
    day,             \* the current ET date
    ledger,          \* table parlay_usage: job_id -> row
    pc,              \* where each invocation of Parlay.parlay stands
    req,             \* the invocation's inputs: author, deliver
    today,           \* local `today` of the invocation
    remaining,       \* local `remaining` of the invocation
    overlapped,      \* history: the author had another job in flight at the check
    worker_task,     \* state of the asyncio task wrapping the worker thread
    worker_result,   \* what run_deep_research returned to the task
    thread,          \* the worker thread itself (it outlives a cancelled task)
    heartbeat_task,  \* state of the heartbeat_updater task
    spinner_idx,     \* local `spinner_idx`, shared with the heartbeat
    sent,            \* status embeds in the order their edit was issued
    shown,           \* status the status message displays (last edit applied)
    job_id,          \* local `job_id` of the invocation (0: not drawn yet)
    final_emb,       \* the result embed the command built (final_emb, timeout_embed)
    attempt,         \* _call_deep_research: the loop variable `attempt`
    last_err,        \* _call_deep_research: local `last_err`
    errors,          \* history: the exceptions the external calls raised, in order
    fell_back,       \* history: the attempt went on to the call without response_format
    sleeps,          \* history: the time.sleep calls made, in tenths of a second
    has_text,        \* resp.output_text of that response is not None
    raw,             \* resp.output_text of a response given to the parser
    given,           \* history: what the text of raw was written from
    parsed           \* what run_deep_research returns for raw

\* the locals of _call_deep_research and what it did
callVars == <<attempt, last_err, errors, sleeps, fell_back>>

vars == <<day, ledger, pc, req, today, remaining, overlapped, worker_task, worker_result, thread,
          heartbeat_task, spinner_idx, sent, shown, job_id, final_emb, callVars,
          has_text, raw, given, parsed>>

\* the response the parser is run on, by itself
parseVars == <<has_text, raw, given, parsed>>

\* ------------------------------------------------------------ the ledger
\* _create_pending_job: INSERT OR REPLACE ... 'pending'
_create_pending_job(l, id, user_id, et_date) ==
    [l EXCEPT ![id] = [user |-> user_id, et_date |-> et_date, status |-> "pending"]]

\* the UPDATE without its WHERE clause
_set_job_status_EveryRow(l, id, status) ==
    [k \in DOMAIN l |-> IF l[k] = NoRow THEN l[k] ELSE [l[k] EXCEPT !.status = status]]

\* _set_job_status: UPDATE ... SET status=? WHERE job_id=?  (no row: no change)
_set_job_status(l, id, status) ==
    IF l[id] = NoRow THEN l
    ELSE [l EXCEPT ![id].status = status]

\* the WHERE clause with status <> 'failed' in place of status = 'success'
CountsAsUsed_AnyNotFailed(row, user_id, et_date) ==
    /\ row # NoRow
    /\ row.user = user_id
    /\ row.et_date = et_date
    /\ row.status # "failed"

\* the WHERE clause with status <> 'pending' in place of status = 'success'
CountsAsUsed_AnyFinal(row, user_id, et_date) ==
    /\ row # NoRow
    /\ row.user = user_id
    /\ row.et_date = et_date
    /\ row.status # "pending"

\* the WHERE clause of _count_success_today
CountsAsUsed(row, user_id, et_date) ==
    /\ row # NoRow
    /\ row.user = user_id
    /\ row.et_date = et_date
    /\ row.status = "success"

_count_success_today(l, user_id, et_date) ==
    Cardinality({id \in JobIds : CountsAsUsed(l[id], user_id, et_date)})

Max(a, b) == IF a >= b THEN a ELSE b

\* remaining floored at 1 in place of 0
RemainingOn_FloorOne(l, user_id, et_date) ==
    Max(1, DAILY_MAX_PARLAYS - _count_success_today(l, user_id, et_date))

\* _remaining_today (lines 76-78) for a given date
RemainingOn(l, user_id, et_date) ==
    Max(0, DAILY_MAX_PARLAYS - _count_success_today(l, user_id, et_date))

\* _remaining_today: the date is the one the clock shows
_remaining_today(user_id) == RemainingOn(ledger, user_id, day)

\* ------------------------------------------------------------ the worker
\* The return statements of run_deep_research: (result, err), with whether
\* strict validation (ParlayResult.model_validate) accepted the output.
\* kind names the return statement: "request_failed" (line 228), "empty"
\* (line 233), "malformed" (line 245), "valid" (line 272 after
\* model_validate accepted), "salvaged" (line 272 after model_validate
\* raised and the salvage built a result), "salvage_failed" (line 270).
\* The first is built from the exception _call_deep_research raised; the
\* others follow a call that returned a response.
RequestFailed(e) ==
    [result |-> FALSE, err |-> TRUE, kind |-> "request_failed",
     text |-> <<"Deep Research request failed: ", e>>]

WorkerReturns ==
    { [result |-> TRUE,  err |-> FALSE, kind |-> "valid", text |-> <<>>],
      [result |-> TRUE,  err |-> FALSE, kind |-> "salvaged", text |-> <<>>],
      [result |-> FALSE, err |-> TRUE,  kind |-> "salvage_failed",
       text |-> <<"Model output failed validation">>],
      [result |-> FALSE, err |-> TRUE,  kind |-> "empty",
       text |-> <<"Empty response from the research model.">>],
      [result |-> FALSE, err |-> TRUE,  kind |-> "malformed",
       text |-> <<"Model did not return valid JSON.">>] }

\* the return of run_deep_research for a query with nothing in it (line 212)
QueryMissing ==
    [result |-> FALSE, err |-> TRUE, kind |-> "no_query",
     text |-> <<"Please specify what you want researched (teams, props, angles).">>]

\* a loop of one more iteration
max_retries_OneMore == 3 + 1

\* max_retries = 3 (line 158)
max_retries == 3

\* a wait of one second whatever the attempt
BackoffDelay_Flat(i) == 10

\* time.sleep((2 ** attempt) + (0.1 * attempt)), in tenths of a second
BackoffDelay(i) == 10 * (2 ^ i) + i

\* ParlayResult.model_validate(data) raised ValidationError (line 256)
StrictValidationFailed(r) == r.kind \in {"salvaged", "salvage_failed"}

\* ------------------------------------------------------------- the statuses
Terminal == {"Complete", "Failed", "TimedOut"}

Emit(j, phase) == Append(sent[j], [phase |-> phase, frame |-> spinner_idx[j]])

Beats(j) == Cardinality({i \in 1..Len(sent[j]) : sent[j][i].phase = "Running"})

\* heartbeat_task.cancel(): a task that has ended stays as it is
CancelHeartbeat(h) == IF h \in {"start", "editing", "sleeping"} THEN "cancelled" ELSE h

\* the status embed shown by the timeout handler (line 325)
TimeoutPhase == "Failed"

\* the final status embed saying Complete whatever err is
DonePhase_Complete(r) == "Complete"

\* status=("Complete" if not err else "Failed")
DonePhase(r) == IF r.err THEN "Failed" ELSE "Complete"

NoEmbed == [shows |-> "none", text |-> <<>>]

\* _result_embed(title, result, err): the Error fields hold the text of err
_result_embed(r) ==
    IF r.err THEN [shows |-> "Error", text |-> r.text]
    ELSE [shows |-> "Result", text |-> <<>>]

\* timeout_embed (line 323)
timeout_embed ==
    [shows |-> "Error", text |-> <<"Timed out waiting for research (took too long).">>]

\* ================================================= utils/parlay_research
\* Text is a sequence of symbols: the characters the code looks at one by
\* one ({ } [ ] , : " ' ` \ and white space), and runs of letters or digits
\* taken whole ("market", "HIGH", "1"); "NL" is the newline and "BT" the
\* backquote.
Whitespace == {" ", "NL"}
Digits == {"0", "1", "5"}
JsonWords == {"json", "JSON"}

First(S) == CHOOSE x \in S : \A y \in S : x <= y
Last(S) == CHOOSE x \in S : \A y \in S : x >= y

\* str.find / str.rfind of one character, 0 for "not found"
find(s, c) ==
    LET I == {i \in 1..Len(s) : s[i] = c} IN IF I = {} THEN 0 ELSE First(I)

rfind(s, c) ==
    LET I == {i \in 1..Len(s) : s[i] = c} IN IF I = {} THEN 0 ELSE Last(I)

\* str.strip(chars)
strip(s, chars) ==
    LET keep == {i \in 1..Len(s) : s[i] \notin chars}
    IN  IF keep = {} THEN <<>> ELSE SubSeq(s, First(keep), Last(keep))

\* a test of the query as it was typed
NoQuery_Unstripped(q) == q = <<>>

\* not user_query.strip() (line 211)
NoQuery(q) == strip(q, Whitespace) = <<>>

\* str.lower() of a run of letters
lower(c) ==
    CASE c \in {"HIGH", "High"} -> "high"
      [] c \in {"LOW", "Low"} -> "low"
      [] c \in {"MEDIUM", "Medium"} -> "medium"
      [] c = "JSON" -> "json"
      [] OTHER -> c

\* the number of characters of a symbol
Width(c) ==
    CASE c \in {"parlay", "market", "medium", "Medium", "MEDIUM"} -> 6
      [] c \in {"rationales"} -> 10
      [] c \in {"risks", "maybe"} -> 5
      [] c \in {"sources", "futures"} -> 7
      [] c \in {"selection", "moneyline"} -> 9
      [] c \in {"book_examples"} -> 13
      [] c \in {"confidence"} -> 10
      [] c \in {"high", "HIGH", "High", "json", "JSON", "null"} -> 4
      [] c \in {"low", "LOW", "say"} -> 3
      [] c \in {"hi", "it", "DK"} -> 2
      [] OTHER -> 1

\* the number of characters of the first k symbols of t
RECURSIVE Chars(_, _)
Chars(t, k) == IF k = 0 THEN 0 ELSE Chars(t, k - 1) + Width(t[k])

InText(c, t) == \E i \in 1..Len(t) : t[i] = c

\* c in t[:n]: the first c of t begins within the first n characters
InPrefix(c, t, n) == find(t, c) # 0 /\ Chars(t, find(t, c) - 1) < n

\* --- re.search(r"```(?:json)?\s*(.+?)\s*```", s, re.DOTALL | re.IGNORECASE)
IsFence(s, p) ==
    /\ p >= 1
    /\ p + 2 <= Len(s)
    /\ s[p] = "BT" /\ s[p + 1] = "BT" /\ s[p + 2] = "BT"

\* \s*``` matches at position e
ClosesAt(s, e) ==
    \E k \in e..Len(s) : IsFence(s, k) /\ \A i \in e..(k - 1) : s[i] \in Whitespace

\* group 1 begun at g: the lazy .+? stops before the first e > g at which
\* \s*``` matches (0: none)
GroupEnd(s, g) ==
    LET E == {e \in (g + 1)..Len(s) : ClosesAt(s, e)}
    IN  IF g > Len(s) \/ E = {} THEN 0 ELSE First(E)

\* where group 1 can begin after the opening fence at p: (?:json)? and \s*
\* are greedy and give back what they took
GroupStarts(s, p) ==
    LET q == p + 3
        hasJson == q <= Len(s) /\ s[q] \in JsonWords
        q1 == IF hasJson THEN q + 1 ELSE q
        ws == {k \in q1..Len(s) : \A i \in q1..k : s[i] \in Whitespace}
        w == Cardinality(ws)
    IN  (q1..(q1 + w)) \cup {q}

FenceAt(s, p) ==
    IsFence(s, p) /\ \E g \in GroupStarts(s, p) : GroupEnd(s, g) # 0

HasFence(s) == \E p \in 1..Len(s) : FenceAt(s, p)

\* m.group(1)
FenceGroup(s) ==
    LET p == First({k \in 1..Len(s) : FenceAt(s, k)})
        g == Last({k \in GroupStarts(s, p) : GroupEnd(s, k) # 0})
    IN  SubSeq(s, g, GroupEnd(s, g) - 1)

\* --- re.sub(r",\s*([}\]])", r"\1", t)
\* the closer a comma at i runs into through white space (0: none)
CloserAfter(t, i) ==
    LET K == {k \in (i + 1)..Len(t) :
                 /\ t[k] \in {"}", "]"}
                 /\ \A m \in (i + 1)..(k - 1) : t[m] \in Whitespace}
    IN  IF K = {} THEN 0 ELSE First(K)

\* Position i is inside a match: the comma, or the white space between it
\* and the closer.  Matches cannot overlap (a match holds one comma).
InTrailingComma(t, i) ==
    \E c \in 1..i :
        /\ t[c] = ","
        /\ CloserAfter(t, c) > i

DropTrailingCommas(t) ==
    LET at == [i \in 1..Len(t) |-> [i |-> i, c |-> t[i]]]
        Kept(x) == ~InTrailingComma(t, x.i)
        kept == SelectSeq(at, Kept)
    IN  [i \in 1..Len(kept) |-> kept[i].c]

\* --- re.sub(r'(?<!\\)\'', '"', t)
SingleToDouble(t) ==
    [i \in 1..Len(t) |->
        IF t[i] = "'" /\ (i = 1 \/ t[i - 1] # "\\") THEN "\"" ELSE t[i]]

\* --- json.loads: values are tagged, v is what the value holds
JStr(v) == [t |-> "str", v |-> v]
JNum(v) == [t |-> "num", v |-> v]
JNull == [t |-> "null", v |-> <<>>]
JList(v) == [t |-> "list", v |-> v]
JDict(v) == [t |-> "dict", v |-> v]

Fail == [ok |-> FALSE, val |-> JNull, pos |-> 0]
Ok(val, pos) == [ok |-> TRUE, val |-> val, pos |-> pos]

SkipWs(t, i) ==
    LET K == {k \in i..Len(t) : t[k] \notin Whitespace}
    IN  IF K = {} THEN Len(t) + 1 ELSE First(K)

\* the characters of a string from i (after the opening quote) up to the
\* closing quote; \" and \\ are the escapes
RECURSIVE ScanString(_, _, _)
ScanString(t, i, acc) ==
    IF i > Len(t) THEN Fail
    ELSE IF t[i] = "\"" THEN Ok(acc, i + 1)
    ELSE IF t[i] = "NL" THEN Fail
    ELSE IF t[i] = "\\"
         THEN IF i + 1 <= Len(t) /\ t[i + 1] \in {"\"", "\\"}
              THEN ScanString(t, i + 2, Append(acc, t[i + 1]))
              ELSE Fail
    ELSE ScanString(t, i + 1, Append(acc, t[i]))

\* d[key] = val on the pairs of a dict
DictPut(d, key, val) ==
    IF \E i \in 1..Len(d) : d[i].k = key
    THEN [i \in 1..Len(d) |-> IF d[i].k = key THEN [k |-> key, val |-> val] ELSE d[i]]
    ELSE Append(d, [k |-> key, val |-> val])

\* Each step of the parser is applied to the value of the step before it:
\* { F(x) : x \in {e} } holds the one value F gives for the value of e.
The(S) == CHOOSE x \in S : TRUE

RECURSIVE ParseValue(_, _)
RECURSIVE ParseElements(_, _, _)
RECURSIVE AfterElement(_, _, _)
RECURSIVE ParseMembers(_, _, _)
RECURSIVE AfterKey(_, _, _)
RECURSIVE AfterMember(_, _, _, _)

ParseValue(t, i) ==
    IF i > Len(t) THEN Fail
    ELSE IF t[i] = "\""
         THEN The({ IF s.ok THEN Ok(JStr(s.val), s.pos) ELSE Fail :
                    s \in {ScanString(t, i + 1, <<>>)} })
    ELSE IF t[i] = "{"
         THEN IF SkipWs(t, i + 1) <= Len(t) /\ t[SkipWs(t, i + 1)] = "}"
              THEN Ok(JDict(<<>>), SkipWs(t, i + 1) + 1)
              ELSE ParseMembers(t, SkipWs(t, i + 1), <<>>)
    ELSE IF t[i] = "["
         THEN IF SkipWs(t, i + 1) <= Len(t) /\ t[SkipWs(t, i + 1)] = "]"
              THEN Ok(JList(<<>>), SkipWs(t, i + 1) + 1)
              ELSE ParseElements(t, SkipWs(t, i + 1), <<>>)
    ELSE IF t[i] \in Digits THEN Ok(JNum(<<t[i]>>), i + 1)
    ELSE IF t[i] = "null" THEN Ok(JNull, i + 1)
    ELSE Fail

\* the elements of an array from i, acc the elements before
ParseElements(t, i, acc) ==
    The({ AfterElement(t, e, a) : e \in {ParseValue(t, i)}, a \in {acc} })

AfterElement(t, e, acc) ==
    IF ~e.ok \/ SkipWs(t, e.pos) > Len(t) THEN Fail
    ELSE IF t[SkipWs(t, e.pos)] = ","
         THEN ParseElements(t, SkipWs(t, SkipWs(t, e.pos) + 1), Append(acc, e.val))
    ELSE IF t[SkipWs(t, e.pos)] = "]"
         THEN Ok(JList(Append(acc, e.val)), SkipWs(t, e.pos) + 1)
    ELSE Fail

\* the members of an object from i, acc the members before
ParseMembers(t, i, acc) ==
    IF i > Len(t) \/ t[i] # "\"" THEN Fail
    ELSE The({ AfterKey(t, key, a) : key \in {ScanString(t, i + 1, <<>>)}, a \in {acc} })

AfterKey(t, key, acc) ==
    IF ~key.ok \/ SkipWs(t, key.pos) > Len(t) \/ t[SkipWs(t, key.pos)] # ":" THEN Fail
    ELSE The({ AfterMember(t, key, e, acc) :
               e \in {ParseValue(t, SkipWs(t, SkipWs(t, key.pos) + 1))} })

AfterMember(t, key, e, acc) ==
    IF ~e.ok \/ SkipWs(t, e.pos) > Len(t) THEN Fail
    ELSE IF t[SkipWs(t, e.pos)] = ","
         THEN ParseMembers(t, SkipWs(t, SkipWs(t, e.pos) + 1), DictPut(acc, key.val, e.val))
    ELSE IF t[SkipWs(t, e.pos)] = "}"
         THEN Ok(JDict(DictPut(acc, key.val, e.val)), SkipWs(t, e.pos) + 1)
    ELSE Fail

\* json.loads(t): one value, white space around it, nothing else
json_loads(t) ==
    The({ IF e.ok /\ SkipWs(t, e.pos) = Len(t) + 1 THEN e ELSE Fail :
          e \in {ParseValue(t, SkipWs(t, 1))} })

\* s after the code fence step (lines 108-110)
Unfenced(s) == IF HasFence(s) THEN strip(FenceGroup(s), Whitespace) ELSE s

\* candidate (lines 113-121)
Candidate(s) ==
    LET start_obj == find(s, "{")
        end_obj == rfind(s, "}")
        start_arr == find(s, "[")
        end_arr == rfind(s, "]")
    IN  IF start_obj # 0 /\ end_obj # 0 /\ end_obj > start_obj
        THEN SubSeq(s, start_obj, end_obj)
        ELSE IF start_arr # 0 /\ end_arr # 0 /\ end_arr > start_arr
             THEN SubSeq(s, start_arr, end_arr)
             ELSE s

\* the single quote repair (lines 130-131)
Requoted(t) ==
    IF InText("'", t) /\ ~InPrefix("\"", t, 80) THEN SingleToDouble(t) ELSE t

\* the parse and its second try (lines 134-139)
Loaded(t) ==
    The({ IF first.ok THEN first ELSE json_loads(strip(t, Whitespace \cup {"BT"})) :
          first \in {json_loads(t)} })

\* a top-level array is wrapped (lines 142-148)
Wrapped(data) ==
    IF ~data.ok THEN data
    ELSE IF data.val.t = "list"
         THEN Ok(JDict(<< [k |-> <<"parlay">>, val |-> data.val],
                         [k |-> <<"rationales">>, val |-> JList(<<>>)],
                         [k |-> <<"risks">>, val |-> JStr(<<>>)],
                         [k |-> <<"sources">>, val |-> JList(<<>>)] >>), 0)
         ELSE data

\* _extract_json_from_text (lines 100-149); ok is FALSE where it raises
_extract_json_from_text(text) ==
    The({ Wrapped(data) :
          data \in { Loaded(t) :
          t \in { Requoted(t0) :
          t0 \in { DropTrailingCommas(strip(candidate, Whitespace)) :
          candidate \in { Candidate(s) :
          s \in { Unfenced(s0) :
          s0 \in {strip(text, Whitespace)} } } } } } })

\* --- the schema
Has(d, key) == \E i \in 1..Len(d.v) : d.v[i].k = <<key>>
Get(d, key) == d.v[CHOOSE i \in 1..Len(d.v) : d.v[i].k = <<key>>].val

\* dict.get(key): None where the key is missing
dict_get(d, key) == IF Has(d, key) THEN Get(d, key) ELSE JNull

\* data.setdefault(key, default)
setdefault(d, key, default) ==
    IF Has(d, key) THEN d ELSE JDict(Append(d.v, [k |-> <<key>>, val |-> default]))

\* lines 248-252
Normalized(data) ==
    IF data.t # "dict" THEN data
    ELSE setdefault(setdefault(setdefault(setdefault(data,
            "parlay", JList(<<>>)), "rationales", JList(<<>>)),
            "risks", JStr(<<>>)), "sources", JList(<<>>))

IsStr(x) == x.t = "str"
IsListOfStr(x) == x.t = "list" /\ \A i \in 1..Len(x.v) : x.v[i].t = "str"
StrList(x) == [i \in 1..Len(x.v) |-> x.v[i].v]

Confidences == {<<"low">>, <<"medium">>, <<"high">>}

\* v.strip().lower()
NormalConfidence(v) ==
    LET s == strip(v, Whitespace) IN [i \in 1..Len(s) |-> lower(s[i])]

\* the check without the strip and the lower
_conf_ok_Exact(v) == v \in Confidences

\* _conf_ok (lines 31-37) accepts the value
_conf_ok(v) == NormalConfidence(v) \in Confidences

\* ParlayLeg validates the mapping (lines 25-37)
LegValid(leg) ==
    /\ leg.t = "dict"
    /\ Has(leg, "market") /\ IsStr(Get(leg, "market"))
    /\ Has(leg, "selection") /\ IsStr(Get(leg, "selection"))
    /\ Has(leg, "book_examples") => IsListOfStr(Get(leg, "book_examples"))
    /\ Has(leg, "confidence") /\ IsStr(Get(leg, "confidence"))
    /\ _conf_ok(Get(leg, "confidence").v)

\* the ParlayLeg built from a mapping it validates
ParlayLeg(leg) ==
    [market |-> Get(leg, "market").v,
     selection |-> Get(leg, "selection").v,
     book_examples |-> IF Has(leg, "book_examples")
                       THEN StrList(Get(leg, "book_examples")) ELSE <<>>,
     confidence |-> NormalConfidence(Get(leg, "confidence").v)]

EmptyResult == [parlay |-> <<>>, rationales |-> <<>>, risks |-> <<>>, sources |-> <<>>]

\* ParlayResult.model_validate(data) does not raise (lines 39-43)
ResultValid(data) ==
    /\ data.t = "dict"
    /\ Has(data, "parlay") => /\ Get(data, "parlay").t = "list"
                              /\ \A i \in 1..Len(Get(data, "parlay").v) :
                                     LegValid(Get(data, "parlay").v[i])
    /\ Has(data, "rationales") => IsListOfStr(Get(data, "rationales"))
    /\ Has(data, "risks") => IsStr(Get(data, "risks"))
    /\ Has(data, "sources") => IsListOfStr(Get(data, "sources"))

\* ParlayResult.model_validate(data)
model_validate(data) ==
    [parlay |-> IF Has(data, "parlay")
                THEN [i \in 1..Len(Get(data, "parlay").v) |->
                         ParlayLeg(Get(data, "parlay").v[i])]
                ELSE <<>>,
     rationales |-> IF Has(data, "rationales") THEN StrList(Get(data, "rationales")) ELSE <<>>,
     risks |-> IF Has(data, "risks") THEN Get(data, "risks").v ELSE <<>>,
     sources |-> IF Has(data, "sources") THEN StrList(Get(data, "sources")) ELSE <<>>]

\* --- the salvage path (lines 259-270)
\* bool(x)
Truthy(x) ==
    CASE x.t = "null" -> FALSE
      [] x.t = "num" -> x.v # <<"0">>
      [] OTHER -> x.v # <<>>

\* str(x): the text of a string, the digits of a number, "None", or the
\* repr of a list or dict
str(x) ==
    CASE x.t \in {"str", "num"} -> x.v
      [] x.t = "null" -> <<"None">>
      [] OTHER -> <<"repr">>

\* what `for e in (x or [])` goes through: the elements of a list, the keys
\* of a dict, the characters of a string; a number cannot be iterated
Iterable(x) == ~Truthy(x) \/ x.t \in {"list", "dict", "str"}

Items(x) ==
    IF ~Truthy(x) THEN <<>>
    ELSE IF x.t = "list" THEN x.v
    ELSE IF x.t = "dict" THEN [i \in 1..Len(x.v) |-> JStr(x.v[i].k)]
    ELSE [i \in 1..Len(x.v) |-> JStr(<<x.v[i]>>)]

RECURSIVE Dicts(_)
Dicts(items) ==
    IF items = <<>> THEN <<>>
    ELSE IF Head(items).t = "dict" THEN <<Head(items)>> \o Dicts(Tail(items))
    ELSE Dicts(Tail(items))

\* the salvage raises nothing
SalvageOk(data) ==
    /\ data.t = "dict"
    /\ Iterable(dict_get(data, "parlay"))
    /\ \A i \in 1..Len(Dicts(Items(dict_get(data, "parlay")))) :
           LegValid(Dicts(Items(dict_get(data, "parlay")))[i])
    /\ Iterable(dict_get(data, "rationales"))
    /\ Iterable(dict_get(data, "sources"))

\* rough (lines 260-265)
Salvage(data) ==
    [parlay |-> [i \in 1..Len(Dicts(Items(dict_get(data, "parlay")))) |->
                    ParlayLeg(Dicts(Items(dict_get(data, "parlay")))[i])],
     rationales |-> [i \in 1..Len(Items(dict_get(data, "rationales"))) |->
                       str(Items(dict_get(data, "rationales"))[i])],
     risks |-> IF Truthy(dict_get(data, "risks")) THEN str(dict_get(data, "risks")) ELSE <<>>,
     sources |-> [i \in 1..Len(Items(dict_get(data, "sources"))) |->
                    str(Items(dict_get(data, "sources"))[i])]]

\* What run_deep_research returns for the text of the response (lines
\* 239-272): the result or None, whether an error message comes with it, and
\* the return statement taken.
NoParse == [kind |-> "none", err |-> FALSE, has_result |-> FALSE, result |-> EmptyResult]

\* if text is None (lines 231-233)
EmptyResponse == [kind |-> "empty", err |-> TRUE, has_result |-> FALSE, result |-> EmptyResult]

Validated(ok, data) ==
        IF ~ok
        THEN [kind |-> "malformed", err |-> TRUE, has_result |-> FALSE, result |-> EmptyResult]
        ELSE IF ResultValid(data)
        THEN [kind |-> "valid", err |-> FALSE, has_result |-> TRUE,
              result |-> model_validate(data)]
        ELSE IF SalvageOk(data)
        THEN [kind |-> "salvaged", err |-> FALSE, has_result |-> TRUE,
              result |-> Salvage(data)]
        ELSE [kind |-> "salvage_failed", err |-> TRUE, has_result |-> FALSE,
              result |-> EmptyResult]

ParseAndValidate(text) ==
    The({ The({ Validated(x.ok, data) : data \in {Normalized(x.val)} }) :
          x \in {_extract_json_from_text(text)} })

\* --- the responses the parser is run on
MaxLegs == 3          \* legs of one response

\* A leg as the model writes it.
Leg(selection, confidence) ==
    [market |-> <<"moneyline">>, selection |-> selection,
     book_examples |-> <<<<"DK">>>>, confidence |-> confidence]

GivenLegs ==
    { Leg(<<"a">>, <<"high">>), Leg(<<"b">>, <<"low">>),
      Leg(<<"a">>, <<"HIGH">>), Leg(<<"b">>, <<"maybe">>),
      Leg(<<"b">>, <<" ", "Medium", " ">>),
      Leg(<<>>, <<"medium">>),
      [Leg(<<"a">>, <<"low">>) EXCEPT !.market = <<"futures">>] }

LegLists == UNION {[1..n -> GivenLegs] : n \in 0..MaxLegs}

\* Texts of rationales, risks and sources: plain, and with the characters
\* the repairs look for.
GivenTexts ==
    { <<"a">>,
      <<"a", ",", "}">>,
      <<"b", ",", " ", "]">>,
      <<"{", "b">>,
      <<"[", "1">>,
      <<"say", " ", "\"", "hi", "\"">>,
      <<"it", "'", "s">>,
      <<"BT", "a", "BT">>,
      <<"BT", "BT", "BT", "a", "BT", "BT", "BT">>,
      <<"BT", "BT", "BT">>,
      <<"a", ",", ",", "}">> }

TextLists == {<<>>} \cup {<<s>> : s \in GivenTexts}

\* json.dumps with separators (",", ":")
Escaped(c) == IF c \in {"\"", "\\"} THEN <<"\\", c>> ELSE <<c>>

RECURSIVE Flat(_)
Flat(ss) == IF ss = <<>> THEN <<>> ELSE Head(ss) \o Flat(Tail(ss))

RECURSIVE Joined(_)
Joined(ss) ==
    IF ss = <<>> THEN <<>>
    ELSE IF Len(ss) = 1 THEN Head(ss)
    ELSE Head(ss) \o <<",">> \o Joined(Tail(ss))

DumpStr(v) == <<"\"">> \o Flat([i \in 1..Len(v) |-> Escaped(v[i])]) \o <<"\"">>

DumpStrList(vs) == <<"[">> \o Joined([i \in 1..Len(vs) |-> DumpStr(vs[i])]) \o <<"]">>

DumpLeg(leg) ==
    <<"{", "\"", "market", "\"", ":">> \o DumpStr(leg.market)
    \o <<",", "\"", "selection", "\"", ":">> \o DumpStr(leg.selection)
    \o <<",", "\"", "book_examples", "\"", ":">> \o DumpStrList(leg.book_examples)
    \o <<",", "\"", "confidence", "\"", ":">> \o DumpStr(leg.confidence)
    \o <<"}">>

DumpLegs(legs) == <<"[">> \o Joined([i \in 1..Len(legs) |-> DumpLeg(legs[i])]) \o <<"]">>

DumpResult(r) ==
    <<"{", "\"", "parlay", "\"", ":">> \o DumpLegs(r.parlay)
    \o <<",", "\"", "rationales", "\"", ":">> \o DumpStrList(r.rationales)
    \o <<",", "\"", "risks", "\"", ":">> \o DumpStr(r.risks)
    \o <<",", "\"", "sources", "\"", ":">> \o DumpStrList(r.sources)
    \o <<"}">>

\* Objects with the four keys: every list of legs, and one leg with every
\* choice of texts.
GivenObjects ==
    { [parlay |-> legs, rationales |-> <<>>, risks |-> <<>>, sources |-> <<>>] :
        legs \in LegLists }
    \cup
    { [parlay |-> <<Leg(<<"a">>, <<"high">>)>>, rationales |-> ra, risks |-> ri, sources |-> so] :
        ra \in TextLists, ri \in {<<>>} \cup GivenTexts, so \in TextLists }

\* the objects written in that way: those of at most one leg
FencedObjects == {r \in GivenObjects : Len(r.parlay) <= 1}

\* The response the docstring of _extract_json_from_text speaks of: the
\* object with a comma before its closing brace, inside a json code fence.
WithTrailingComma(t) == SubSeq(t, 1, Len(t) - 1) \o <<",", "}">>

Fenced(t) == <<"BT", "BT", "BT", "json", "NL">> \o t \o <<"NL", "BT", "BT", "BT">>

\* Other responses: not an object, or an object whose fields have other types.
OtherTexts ==
    { <<>>,
      <<"5">>,
      <<"null">>,
      <<"\"", "a", "\"">>,
      <<"[", "]">>,
      <<"[", "1", ",", "5", "]">>,
      <<"{", "}">>,
      <<"{", "\"", "rationales", "\"", ":", "[", "1", "]", "}">>,
      <<"{", "\"", "parlay", "\"", ":", "5", "}">>,
      <<"{", "\"", "parlay", "\"", ":", "[", "1", "]", ",", "\"", "risks", "\"", ":", "null", "}">>,
      <<"{", "\"", "sources", "\"", ":", "5", "}">>,
      <<"a", " ", "b">> }

NoInput == [form |-> "none", value |-> EmptyResult]

\* ------------------------------------------------------------------ Init
Init ==
    /\ day = 1
    /\ \E n \in 0..MaxPrior :
         ledger = [id \in JobIds |->
                     IF id \in PriorIds /\ 0 - id <= n
                     THEN [user |-> "u1", et_date |-> 1, status |-> "success"]
                     ELSE NoRow]
    /\ pc = [j \in Jobs |-> "idle"]
    /\ req = [j \in Jobs |-> [user |-> "u1", deliver |-> "dm", query |-> <<"a">>]]
    /\ today = [j \in Jobs |-> 0]
    /\ remaining = [j \in Jobs |-> 0]
    /\ overlapped = [j \in Jobs |-> FALSE]
    /\ worker_task = [j \in Jobs |-> "none"]
    /\ worker_result = [j \in Jobs |-> NoResult]
    /\ thread = [j \in Jobs |-> "none"]
    /\ heartbeat_task = [j \in Jobs |-> "none"]
    /\ spinner_idx = [j \in Jobs |-> 0]
    /\ sent = [j \in Jobs |-> <<>>]
    /\ shown = [j \in Jobs |-> "none"]
    /\ job_id = [j \in Jobs |-> 0]
    /\ final_emb = [j \in Jobs |-> NoEmbed]
    /\ attempt = [j \in Jobs |-> 0]
    /\ last_err = [j \in Jobs |-> "none"]
    /\ errors = [j \in Jobs |-> <<>>]
    /\ fell_back = [j \in Jobs |-> FALSE]
    /\ sleeps = [j \in Jobs |-> <<>>]
    /\ has_text = TRUE
    /\ raw = <<>>
    /\ given = NoInput
    /\ parsed = NoParse

\* --------------------------------------------------------------- actions
\* The clock passes ET midnight.
Midnight ==
    /\ day < MaxDay
    /\ day' = day + 1
    /\ UNCHANGED <<ledger, pc, req, today, remaining, overlapped, worker_task, worker_result, thread,
                   heartbeat_task, spinner_idx, sent, shown>>
    /\ UNCHANGED <<job_id, final_emb, callVars>>
    /\ UNCHANGED parseVars

\* the limit check with < in place of <=
QuotaExceeded_Strict(rem) == rem < 0

\* no limit check at all
QuotaExceeded_Never(rem) == FALSE

\* if remaining <= 0 (line 218)
QuotaExceeded(rem) == rem <= 0

\* The author has a job between its limit check and its ledger write.
InFlight(j) ==
    pc[j] \in {"defer", "initial_status", "waiting_update", "wait_for",
               "processing_status"}

\* /parlay is invoked: access control, the daily limit check, then the
\* await of defer (lines 206-227).  Invocations are numbered in the order
\* they are made.
Request(j, delivers, access, queries) ==
    /\ pc[j] = "idle"
    /\ IF j = 1 THEN TRUE ELSE pc[j - 1] # "idle"
    /\ \E u \in Users, d \in delivers, allowed \in access, q \in queries :
         /\ req' = [req EXCEPT ![j] = [user |-> u, deliver |-> d, query |-> q]]
         /\ IF ~allowed
            THEN /\ pc' = [pc EXCEPT ![j] = "denied"]
                 /\ UNCHANGED <<today, remaining, overlapped>>
            ELSE /\ remaining' = [remaining EXCEPT ![j] = _remaining_today(u)]
                 /\ today' = [today EXCEPT ![j] = day]
                 /\ overlapped' = [overlapped EXCEPT ![j] =
                        \E k \in Jobs : k # j /\ req[k].user = u /\ InFlight(k)]
                 /\ pc' = [pc EXCEPT ![j] =
                        IF QuotaExceeded(_remaining_today(u)) THEN "rejected" ELSE "defer"]
    /\ UNCHANGED <<day, ledger, worker_task, worker_result, thread,
                   heartbeat_task, spinner_idx, sent, shown>>
    /\ UNCHANGED <<job_id, final_emb, callVars>>
    /\ UNCHANGED parseVars

\* defer returned: job_id is drawn, the pending row is written and the
\* initial Waiting embed is sent (lines 229-255).  job_id is
\* uuid4().hex[:8]: the ids drawn in one run are distinct, and
\* the invocation's number stands for its id where ids is {j}; a larger ids
\* lets the 8 hex digits drawn coincide with an id the table holds.
Reserve(j, ids) ==
    /\ pc[j] = "defer"
    /\ \E id \in ids :
         /\ job_id' = [job_id EXCEPT ![j] = id]
         /\ ledger' = _create_pending_job(ledger, id, req[j].user, today[j])
    /\ sent' = [sent EXCEPT ![j] = Emit(j, "Waiting")]
    /\ pc' = [pc EXCEPT ![j] = "initial_status"]
    /\ UNCHANGED <<day, req, today, remaining, overlapped, worker_task, worker_result, thread,
                   heartbeat_task, spinner_idx, shown>>
    /\ UNCHANGED <<final_emb, callVars>>
    /\ UNCHANGED parseVars

\* defer raised: the exception leaves the command before anything is written.
DeferFails(j) ==
    /\ pc[j] = "defer"
    /\ pc' = [pc EXCEPT ![j] = "crashed"]
    /\ UNCHANGED <<day, ledger, req, today, remaining, overlapped, worker_task, worker_result, thread,
                   heartbeat_task, spinner_idx, sent, shown>>
    /\ UNCHANGED <<job_id, final_emb, callVars>>
    /\ UNCHANGED parseVars

\* The initial status was delivered: the "Waiting" update is sent
\* (lines 263-274).
InitialStatusSent(j) ==
    /\ pc[j] = "initial_status"
    /\ shown' = [shown EXCEPT ![j] = "Waiting"]
    /\ spinner_idx' = [spinner_idx EXCEPT ![j] = @ + 1]
    /\ sent' = [sent EXCEPT ![j] =
                  Append(@, [phase |-> "Waiting", frame |-> spinner_idx[j] + 1])]
    /\ pc' = [pc EXCEPT ![j] = "waiting_update"]
    /\ UNCHANGED <<day, ledger, req, today, remaining, overlapped, worker_task, worker_result, thread,
                   heartbeat_task>>
    /\ UNCHANGED <<job_id, final_emb, callVars>>
    /\ UNCHANGED parseVars

\* The initial status send raised (lines 249-255 are not inside a try): the
\* exception leaves the command.
InitialStatusFails(j) ==
    /\ pc[j] = "initial_status"
    /\ pc' = [pc EXCEPT ![j] = "crashed"]
    /\ UNCHANGED <<day, ledger, req, today, remaining, overlapped, worker_task, worker_result, thread,
                   heartbeat_task, spinner_idx, sent, shown>>
    /\ UNCHANGED <<job_id, final_emb, callVars>>
    /\ UNCHANGED parseVars

\* The Waiting update completed (delivered, or raised and swallowed): the
\* worker task and the heartbeat task are created and the command awaits
\* wait_for (lines 275-316).
Launch(j, outcomes) ==
    /\ pc[j] = "waiting_update"
    /\ \E delivered \in outcomes :
         shown' = [shown EXCEPT ![j] = IF delivered THEN "Waiting" ELSE @]
    /\ worker_task' = [worker_task EXCEPT ![j] = "running"]
    /\ thread' = [thread EXCEPT ![j] = IF NoQuery(req[j].query) THEN "no_query" ELSE "calling"]
    /\ attempt' = [attempt EXCEPT ![j] = 0]
    /\ last_err' = [last_err EXCEPT ![j] = "none"]
    /\ UNCHANGED <<errors, sleeps, fell_back>>
    /\ heartbeat_task' = [heartbeat_task EXCEPT ![j] = "start"]
    /\ pc' = [pc EXCEPT ![j] = "wait_for"]
    /\ UNCHANGED <<day, ledger, req, today, remaining, overlapped, worker_result, spinner_idx, sent>>
    /\ UNCHANGED <<job_id, final_emb>>
    /\ UNCHANGED parseVars

\* a loop that does not test the worker task
HeartbeatGoesOn_Always(j) == TRUE

\* while not worker_task.done() (line 292)
HeartbeatGoesOn(j) == worker_task[j] = "running"

\* The heartbeat task runs from its start, or from the end of its sleep, to
\* its next await: the loop test, then the Running embed (lines 292-308).
HeartbeatTick(j) ==
    /\ heartbeat_task[j] \in {"start", "sleeping"}
    /\ IF HeartbeatGoesOn(j)
       THEN /\ Beats(j) < MaxBeats
            /\ spinner_idx' = [spinner_idx EXCEPT ![j] = @ + 1]
            /\ sent' = [sent EXCEPT ![j] =
                          Append(@, [phase |-> "Running", frame |-> spinner_idx[j] + 1])]
            /\ heartbeat_task' = [heartbeat_task EXCEPT ![j] = "editing"]
       ELSE /\ heartbeat_task' = [heartbeat_task EXCEPT ![j] = "exited"]
            /\ UNCHANGED <<spinner_idx, sent>>
    /\ UNCHANGED <<day, ledger, pc, req, today, remaining, overlapped, worker_task, worker_result,
                   thread, shown>>
    /\ UNCHANGED <<job_id, final_emb, callVars>>
    /\ UNCHANGED parseVars

\* The heartbeat's edit completed (delivered, or raised and swallowed); the
\* task sleeps HEARTBEAT_SECONDS (lines 301-311).
HeartbeatEdited(j, outcomes) ==
    /\ heartbeat_task[j] = "editing"
    /\ \E delivered \in outcomes :
         shown' = [shown EXCEPT ![j] = IF delivered THEN "Running" ELSE @]
    /\ heartbeat_task' = [heartbeat_task EXCEPT ![j] = "sleeping"]
    /\ UNCHANGED <<day, ledger, pc, req, today, remaining, overlapped, worker_task, worker_result,
                   thread, spinner_idx, sent>>
    /\ UNCHANGED <<job_id, final_emb, callVars>>
    /\ UNCHANGED parseVars

\* The thread is inside client.responses.create: the call with
\* response_format (line 164) or the one without (line 178).
InCall == {"calling", "fallback"}

\* The external call returns a response; run_deep_research parses it and
\* returns in its thread, and the worker task resolves.
WorkerResolves(j, returns) ==
    /\ worker_task[j] = "running"
    /\ thread[j] \in InCall
    /\ \E r \in returns :
         worker_result' = [worker_result EXCEPT ![j] = r]
    /\ worker_task' = [worker_task EXCEPT ![j] = "done"]
    /\ thread' = [thread EXCEPT ![j] = "returned"]
    /\ UNCHANGED <<day, ledger, pc, req, today, remaining, overlapped, heartbeat_task, spinner_idx,
                   sent, shown>>
    /\ UNCHANGED <<job_id, final_emb, callVars>>
    /\ UNCHANGED parseVars

\* An exception leaves run_deep_research (or to_thread): the task holds it.
WorkerRaises(j) ==
    /\ worker_task[j] = "running"
    /\ thread[j] \in InCall
    /\ worker_task' = [worker_task EXCEPT ![j] = "raised"]
    /\ thread' = [thread EXCEPT ![j] = "returned"]
    /\ UNCHANGED <<day, ledger, pc, req, today, remaining, overlapped, worker_result, heartbeat_task,
                   spinner_idx, sent, shown>>
    /\ UNCHANGED <<job_id, final_emb, callVars>>
    /\ UNCHANGED parseVars

\* The call with response_format raises TypeError: the except branch makes
\* the call without response_format, in the same iteration (lines 175-187).
StructuredRejected(j) ==
    /\ thread[j] = "calling"
    /\ thread' = [thread EXCEPT ![j] = "fallback"]
    /\ fell_back' = [fell_back EXCEPT ![j] = TRUE]
    /\ UNCHANGED <<day, ledger, pc, req, today, remaining, overlapped, worker_task, worker_result,
                   heartbeat_task, spinner_idx, sent, shown, job_id, final_emb, attempt,
                   last_err, errors, sleeps>>
    /\ UNCHANGED parseVars

\* run_deep_research finds nothing in user_query and returns its error
\* before the prompt is built and before any call (lines 211-212).
QueryRejected(j) ==
    /\ thread[j] = "no_query"
    /\ IF worker_task[j] = "running"
       THEN /\ worker_result' = [worker_result EXCEPT ![j] = QueryMissing]
            /\ worker_task' = [worker_task EXCEPT ![j] = "done"]
            /\ thread' = [thread EXCEPT ![j] = "returned"]
       ELSE /\ thread' = [thread EXCEPT ![j] = "returned_late"]
            /\ UNCHANGED <<worker_task, worker_result>>
    /\ UNCHANGED <<day, ledger, pc, req, today, remaining, overlapped, heartbeat_task, spinner_idx,
                   sent, shown>>
    /\ UNCHANGED <<job_id, final_emb, callVars>>
    /\ UNCHANGED parseVars

\* The external call raises (the call with response_format an exception
\* other than TypeError, the call without it any exception): the except
\* branch keeps the exception in last_err and the loop body ends in
\* time.sleep (lines 188-194).  The thread does not see the cancellation of
\* the task that awaits it.
CallFails(j, errs) ==
    /\ thread[j] \in InCall
    /\ \E e \in errs :
         /\ last_err' = [last_err EXCEPT ![j] = e]
         /\ errors' = [errors EXCEPT ![j] = Append(@, e)]
    /\ sleeps' = [sleeps EXCEPT ![j] = Append(@, BackoffDelay(attempt[j]))]
    /\ thread' = [thread EXCEPT ![j] = "sleeping"]
    /\ UNCHANGED <<day, ledger, pc, req, today, remaining, overlapped, worker_task, worker_result,
                   heartbeat_task, spinner_idx, sent, shown, job_id, final_emb, attempt, fell_back>>
    /\ UNCHANGED parseVars

\* time.sleep returns: the next iteration makes the external call, or the
\* loop is over, last_err is raised (line 196) and run_deep_research returns
\* the request error (line 228).
BackoffEnds(j) ==
    /\ thread[j] = "sleeping"
    /\ IF attempt[j] + 1 < max_retries
       THEN /\ attempt' = [attempt EXCEPT ![j] = @ + 1]
            /\ fell_back' = [fell_back EXCEPT ![j] = FALSE]
            /\ thread' = [thread EXCEPT ![j] = "calling"]
            /\ UNCHANGED <<worker_task, worker_result>>
       ELSE /\ attempt' = attempt
            /\ fell_back' = fell_back
            /\ IF worker_task[j] = "running"
               THEN /\ worker_result' = [worker_result EXCEPT ![j] = RequestFailed(last_err[j])]
                    /\ worker_task' = [worker_task EXCEPT ![j] = "done"]
                    /\ thread' = [thread EXCEPT ![j] = "returned"]
               ELSE /\ thread' = [thread EXCEPT ![j] = "returned_late"]
                    /\ UNCHANGED <<worker_task, worker_result>>
    /\ UNCHANGED <<day, ledger, pc, req, today, remaining, overlapped, heartbeat_task, spinner_idx,
                   sent, shown, job_id, final_emb, last_err, errors, sleeps>>
    /\ UNCHANGED parseVars

\* The external call of a cancelled worker task returns later; nothing
\* reads the value run_deep_research returns.
ThreadEndsLate(j) ==
    /\ worker_task[j] = "cancelled"
    /\ thread[j] \in InCall
    /\ thread' = [thread EXCEPT ![j] = "returned_late"]
    /\ UNCHANGED <<day, ledger, pc, req, today, remaining, overlapped, worker_task, worker_result,
                   heartbeat_task, spinner_idx, sent, shown>>
    /\ UNCHANGED <<job_id, final_emb, callVars>>
    /\ UNCHANGED parseVars

\* the timeout handler writing 'success'
TimeoutStatus_Success == "success"

\* the timeout handler leaving the row as it is
TimeoutStatus_Pending == "pending"

\* the ledger write of the timeout handler (line 320)
TimeoutStatus == "failed"

\* JOB_TIMEOUT_SECONDS elapse with the worker unresolved: wait_for cancels
\* the worker task and raises TimeoutError; the handler marks the row and
\* sends the final status embed (lines 317-339).
Timeout(j) ==
    /\ pc[j] = "wait_for"
    /\ worker_task[j] = "running"
    /\ worker_task' = [worker_task EXCEPT ![j] = "cancelled"]
    /\ ledger' = _set_job_status(ledger, job_id[j], TimeoutStatus)
    /\ final_emb' = [final_emb EXCEPT ![j] = timeout_embed]
    /\ sent' = [sent EXCEPT ![j] = Emit(j, TimeoutPhase)]
    /\ pc' = [pc EXCEPT ![j] = "timeout_status"]
    /\ UNCHANGED <<day, req, today, remaining, overlapped, worker_result, thread, heartbeat_task,
                   spinner_idx, shown>>
    /\ UNCHANGED <<job_id, callVars>>
    /\ UNCHANGED parseVars

\* The timeout handler's status edit completed; the timeout embed is sent
\* (lines 328-348).
TimeoutStatusSent(j, outcomes) ==
    /\ pc[j] = "timeout_status"
    /\ \E delivered \in outcomes :
         shown' = [shown EXCEPT ![j] = IF delivered THEN sent[j][Len(sent[j])].phase ELSE @]
    /\ pc' = [pc EXCEPT ![j] = "timeout_result"]
    /\ UNCHANGED <<day, ledger, req, today, remaining, overlapped, worker_task, worker_result, thread,
                   heartbeat_task, spinner_idx, sent>>
    /\ UNCHANGED <<job_id, final_emb, callVars>>
    /\ UNCHANGED parseVars

\* The timeout embed was sent (or every send raised): return, through the
\* finally that cancels the heartbeat (lines 349-351).
TimeoutReturns(j) ==
    /\ pc[j] = "timeout_result"
    /\ heartbeat_task' = [heartbeat_task EXCEPT ![j] = CancelHeartbeat(@)]
    /\ pc' = [pc EXCEPT ![j] = "done"]
    /\ UNCHANGED <<day, ledger, req, today, remaining, overlapped, worker_task, worker_result, thread,
                   spinner_idx, sent, shown>>
    /\ UNCHANGED <<job_id, final_emb, callVars>>
    /\ UNCHANGED parseVars

\* the Processing embed built without spinner_idx += 1
WaitForReturns_SameFrame(j) ==
    /\ pc[j] = "wait_for"
    /\ worker_task[j] = "done"
    /\ heartbeat_task' = [heartbeat_task EXCEPT ![j] = CancelHeartbeat(@)]
    /\ sent' = [sent EXCEPT ![j] = Emit(j, "Processing")]
    /\ pc' = [pc EXCEPT ![j] = "processing_status"]
    /\ UNCHANGED <<day, ledger, req, today, remaining, overlapped, worker_task, worker_result, thread,
                   shown, spinner_idx>>
    /\ UNCHANGED <<job_id, final_emb, callVars>>
    /\ UNCHANGED parseVars

\* wait_for returns the worker's value: the heartbeat is cancelled and the
\* Processing embed is sent (lines 350-364).
WaitForReturns(j) ==
    /\ pc[j] = "wait_for"
    /\ worker_task[j] = "done"
    /\ heartbeat_task' = [heartbeat_task EXCEPT ![j] = CancelHeartbeat(@)]
    /\ spinner_idx' = [spinner_idx EXCEPT ![j] = @ + 1]
    /\ sent' = [sent EXCEPT ![j] =
                  Append(@, [phase |-> "Processing", frame |-> spinner_idx[j] + 1])]
    /\ pc' = [pc EXCEPT ![j] = "processing_status"]
    /\ UNCHANGED <<day, ledger, req, today, remaining, overlapped, worker_task, worker_result, thread, shown>>
    /\ UNCHANGED <<job_id, final_emb, callVars>>
    /\ UNCHANGED parseVars

\* wait_for re-raises the worker's exception: it is no TimeoutError, so only
\* the finally runs and the exception leaves the command (lines 315-351).
WaitForRaises(j) ==
    /\ pc[j] = "wait_for"
    /\ worker_task[j] = "raised"
    /\ heartbeat_task' = [heartbeat_task EXCEPT ![j] = CancelHeartbeat(@)]
    /\ pc' = [pc EXCEPT ![j] = "crashed"]
    /\ UNCHANGED <<day, ledger, req, today, remaining, overlapped, worker_task, worker_result, thread,
                   spinner_idx, sent, shown>>
    /\ UNCHANGED <<job_id, final_emb, callVars>>
    /\ UNCHANGED parseVars

\* the finalisation writing 'success' whatever the worker returned
FinalStatus_Success(r) == "success"

\* if err: 'failed' else: 'success' (lines 370-376)
FinalStatus(r) == IF r.err THEN "failed" ELSE "success"

\* The Processing edit completed: the row is finalised from the worker's
\* value; deliver=dm sends the result by DM before the final status embed,
\* deliver=channel sends the final status embed at once (lines 365-408).
Finalize(j, outcomes) ==
    /\ pc[j] = "processing_status"
    /\ \E delivered \in outcomes :
         shown' = [shown EXCEPT ![j] = IF delivered THEN "Processing" ELSE @]
    /\ ledger' = _set_job_status(ledger, job_id[j], FinalStatus(worker_result[j]))
    /\ final_emb' = [final_emb EXCEPT ![j] = _result_embed(worker_result[j])]
    /\ IF req[j].deliver = "dm"
       THEN /\ pc' = [pc EXCEPT ![j] = "dm_result"]
            /\ sent' = sent
       ELSE /\ pc' = [pc EXCEPT ![j] = "final_status"]
            /\ sent' = [sent EXCEPT ![j] = Emit(j, DonePhase(worker_result[j]))]
    /\ UNCHANGED <<day, req, today, remaining, overlapped, worker_task, worker_result, thread,
                   heartbeat_task, spinner_idx>>
    /\ UNCHANGED <<job_id, callVars>>
    /\ UNCHANGED parseVars

\* deliver=dm: the DM completed (sent, or raised and swallowed); the final
\* status embed is sent (lines 387-396).
DmResultSent(j) ==
    /\ pc[j] = "dm_result"
    /\ sent' = [sent EXCEPT ![j] = Emit(j, DonePhase(worker_result[j]))]
    /\ pc' = [pc EXCEPT ![j] = "final_status"]
    /\ UNCHANGED <<day, ledger, req, today, remaining, overlapped, worker_task, worker_result, thread,
                   heartbeat_task, spinner_idx, shown>>
    /\ UNCHANGED <<job_id, final_emb, callVars>>
    /\ UNCHANGED parseVars

\* The final status edit completed; what follows only posts the result
\* (lines 396-417) and the command ends.
FinalStatusSent(j, outcomes) ==
    /\ pc[j] = "final_status"
    /\ \E delivered \in outcomes :
         shown' = [shown EXCEPT ![j] = IF delivered THEN sent[j][Len(sent[j])].phase ELSE @]
    /\ pc' = [pc EXCEPT ![j] = "done"]
    /\ UNCHANGED <<day, ledger, req, today, remaining, overlapped, worker_task, worker_result, thread,
                   heartbeat_task, spinner_idx, sent>>
    /\ UNCHANGED <<job_id, final_emb, callVars>>
    /\ UNCHANGED parseVars

\* The awaits at which the command can be cancelled.
Awaiting == {"defer", "initial_status", "waiting_update", "wait_for",
             "timeout_status", "timeout_result", "processing_status",
             "dm_result", "final_status"}

\* The command's task is cancelled while it awaits: CancelledError is caught
\* by no handler; inside the try (lines 315-351) wait_for cancels the worker
\* task and the finally cancels the heartbeat.
CancelJob(j) ==
    /\ pc[j] \in Awaiting
    /\ pc' = [pc EXCEPT ![j] = "cancelled"]
    /\ IF pc[j] \in {"wait_for", "timeout_status", "timeout_result"}
       THEN /\ heartbeat_task' = [heartbeat_task EXCEPT ![j] = CancelHeartbeat(@)]
            /\ worker_task' = [worker_task EXCEPT ![j] =
                                 IF @ = "running" THEN "cancelled" ELSE @]
       ELSE UNCHANGED <<heartbeat_task, worker_task>>
    /\ UNCHANGED <<day, ledger, req, today, remaining, overlapped, worker_result, thread, spinner_idx,
                   sent, shown>>
    /\ UNCHANGED <<job_id, final_emb, callVars>>
    /\ UNCHANGED parseVars

\* The run's one invocation.
FirstRequest(j) == j = 1 /\ Request(j, Deliver, BOOLEAN, Queries)

Next ==
    \/ Midnight
    \/ \E j \in Jobs :
         \/ FirstRequest(j)
         \/ Reserve(j, {j})
         \/ DeferFails(j)
         \/ InitialStatusSent(j)
         \/ InitialStatusFails(j)
         \/ Launch(j, BOOLEAN)
         \/ HeartbeatTick(j)
         \/ HeartbeatEdited(j, BOOLEAN)
         \/ WorkerResolves(j, WorkerReturns)
         \/ WorkerRaises(j)
         \/ QueryRejected(j)
         \/ StructuredRejected(j)
         \/ CallFails(j, Errors)
         \/ BackoffEnds(j)
         \/ ThreadEndsLate(j)
         \/ Timeout(j)
         \/ TimeoutStatusSent(j, BOOLEAN)
         \/ TimeoutReturns(j)
         \/ WaitForReturns(j)
         \/ WaitForRaises(j)
         \/ Finalize(j, BOOLEAN)
         \/ DmResultSent(j)
         \/ FinalStatusSent(j, BOOLEAN)
         \/ CancelJob(j)

\* One invocation of /parlay, with everything that can happen to it.
Spec == Init /\ [][Next]_vars

\* Several invocations, of one user or of several, overlapping at will, seen
\* for their ledger traffic: every author is allowed, deliver is "channel",
\* the Discord calls succeed except the initial status send, the external
\* call returns at its first attempt, with a valid result or one that fails
\* validation, and the heartbeat is not scheduled before it is cancelled.
NextQuota ==
    \/ Midnight
    \/ \E j \in Jobs :
         \/ Request(j, {"channel"}, {TRUE}, {<<"a">>})
         \/ Reserve(j, {j})
         \/ InitialStatusSent(j)
         \/ InitialStatusFails(j)
         \/ Launch(j, {TRUE})
         \/ WorkerResolves(j, {r \in WorkerReturns : r.kind \in {"valid", "salvage_failed"}})
         \/ Timeout(j)
         \/ TimeoutStatusSent(j, {TRUE})
         \/ TimeoutReturns(j)
         \/ WaitForReturns(j)
         \/ Finalize(j, {TRUE})
         \/ FinalStatusSent(j, {TRUE})

SpecQuota == Init /\ [][NextQuota]_vars

\* As NextQuota within one day and with every initial status delivered, but
\* the 8 hex digits an invocation draws for job_id may be those of a row the
\* table holds: of an earlier run of the bot, or of this run's other job.
NextIds ==
    \E j \in Jobs :
        \/ Request(j, {"channel"}, {TRUE}, {<<"a">>})
        \/ Reserve(j, JobIds)
        \/ InitialStatusSent(j)
        \/ Launch(j, {TRUE})
        \/ WorkerResolves(j, {r \in WorkerReturns : r.kind \in {"valid", "salvage_failed"}})
        \/ Timeout(j)
        \/ TimeoutStatusSent(j, {TRUE})
        \/ TimeoutReturns(j)
        \/ WaitForReturns(j)
        \/ Finalize(j, {TRUE})
        \/ FinalStatusSent(j, {TRUE})

SpecIds == Init /\ [][NextIds]_vars

\* The parser by itself: a response text is given, and run_deep_research
\* goes from resp.output_text to its return (lines 231-272); the response
\* may hold no output_text at all.
InitParse ==
    /\ day = 1
    /\ ledger = [id \in JobIds |-> NoRow]
    /\ pc = [j \in Jobs |-> "idle"]
    /\ req = [j \in Jobs |-> [user |-> "u1", deliver |-> "dm", query |-> <<"a">>]]
    /\ today = [j \in Jobs |-> 0]
    /\ remaining = [j \in Jobs |-> 0]
    /\ overlapped = [j \in Jobs |-> FALSE]
    /\ worker_task = [j \in Jobs |-> "none"]
    /\ worker_result = [j \in Jobs |-> NoResult]
    /\ thread = [j \in Jobs |-> "none"]
    /\ heartbeat_task = [j \in Jobs |-> "none"]
    /\ spinner_idx = [j \in Jobs |-> 0]
    /\ sent = [j \in Jobs |-> <<>>]
    /\ shown = [j \in Jobs |-> "none"]
    /\ job_id = [j \in Jobs |-> 0]
    /\ final_emb = [j \in Jobs |-> NoEmbed]
    /\ attempt = [j \in Jobs |-> 0]
    /\ last_err = [j \in Jobs |-> "none"]
    /\ errors = [j \in Jobs |-> <<>>]
    /\ fell_back = [j \in Jobs |-> FALSE]
    /\ sleeps = [j \in Jobs |-> <<>>]
    /\ parsed = NoParse
    /\ \/ \E r \in GivenObjects :
            /\ given = [form |-> "object", value |-> r]
            /\ raw = DumpResult(r)
            /\ has_text = TRUE
       \/ \E r \in FencedObjects :
            /\ given = [form |-> "fenced", value |-> r]
            /\ raw = Fenced(WithTrailingComma(DumpResult(r)))
            /\ has_text = TRUE
       \/ \E legs \in LegLists :
            /\ given = [form |-> "array", value |-> [EmptyResult EXCEPT !.parlay = legs]]
            /\ raw = DumpLegs(legs)
            /\ has_text = TRUE
       \/ \E t \in OtherTexts :
            /\ given = [form |-> "text", value |-> EmptyResult]
            /\ raw = t
            /\ has_text = TRUE
       \/ /\ given = [form |-> "absent", value |-> EmptyResult]
          /\ raw = <<>>
          /\ has_text = FALSE

\* lines 231-272 on the text of the response
ParseResponse ==
    /\ parsed = NoParse
    /\ parsed' = IF has_text THEN ParseAndValidate(raw) ELSE EmptyResponse
    /\ UNCHANGED <<day, ledger, pc, req, today, remaining, overlapped, worker_task, worker_result,
                   thread, heartbeat_task, spinner_idx, sent, shown, job_id, final_emb, callVars,
                   has_text, raw, given>>

NextParse == ParseResponse

SpecParse == InitParse /\ [][NextParse]_vars

\* ================================================================ claims
Phases(j) == {sent[j][i].phase : i \in 1..Len(sent[j])}

TerminalCount(j) ==
    Cardinality({i \in 1..Len(sent[j]) : sent[j][i].phase \in Terminal})

\* The command coroutine of the invocation has ended after its row was written.
Over(j) == pc[j] \in {"done", "crashed", "cancelled"} /\ ledger[j] # NoRow

\* The deadline fired for the job: its worker task was cancelled and the
\* timeout handler issued its status.
TimedOut(j) ==
    /\ worker_task[j] = "cancelled"
    /\ \E i \in 1..Len(sent[j]) : sent[j][i].phase \in Terminal

\* The job went through the success branch of the finalisation (line 376).
FinalizedSuccess(j) ==
    /\ pc[j] \in {"dm_result", "final_status", "done"}
    /\ worker_task[j] = "done"
    /\ ~worker_result[j].err

\* Successful finalizes of a user for a reference day: those of earlier runs
\* of the bot and those of this run's invocations.
SuccessfulFinalizes(u, d) ==
    Cardinality({id \in PriorIds : ledger[id] # NoRow /\ ledger[id].user = u
                                   /\ ledger[id].et_date = d})
    + Cardinality({j \in Jobs : FinalizedSuccess(j) /\ req[j].user = u /\ today[j] = d})

\* C1: for every user and reference day, Remaining equals
\* max(0, DAILY_MAX - N), N the number of successful finalizes of that user
\* and day: rows left pending or failed (a timed-out job's too) do not lower
\* it, and it is never negative.
C1_RemainingCountsOnlySuccesses ==
    \A u \in Users, d \in Days :
        /\ RemainingOn(ledger, u, d) = Max(0, DAILY_MAX_PARLAYS - SuccessfulFinalizes(u, d))
        /\ RemainingOn(ledger, u, d) >= 0

\* C1 witness: one user has, for one day, a success written by this run next
\* to a row left pending or failed, and Remaining is DAILY_MAX - N > 0.
C1_Witness ==
    \E j \in Jobs, k \in Jobs :
        /\ j # k
        /\ FinalizedSuccess(j)
        /\ ledger[j].status = "success"
        /\ ledger[k] # NoRow
        /\ ledger[k].status \in {"pending", "failed"}
        /\ ledger[k].user = ledger[j].user
        /\ ledger[k].et_date = ledger[j].et_date
        /\ RemainingOn(ledger, ledger[j].user, ledger[j].et_date)
             = DAILY_MAX_PARLAYS - SuccessfulFinalizes(ledger[j].user, ledger[j].et_date)
        /\ RemainingOn(ledger, ledger[j].user, ledger[j].et_date) \in 1..(DAILY_MAX_PARLAYS - 1)

\* C2: a request made when Remaining is 0 is rejected and enters no state: no
\* row is written, no status is emitted, no worker and no heartbeat are
\* started, and the ledger is as it was.
C2_QuotaExceededEntersNoState ==
    /\ [](\A j \in Jobs :
            pc[j] = "rejected" =>
                /\ remaining[j] = 0
                /\ ledger[j] = NoRow
                /\ sent[j] = <<>>
                /\ shown[j] = "none"
                /\ worker_task[j] = "none"
                /\ heartbeat_task[j] = "none")
    /\ [][\A j \in Jobs :
            (/\ pc[j] = "idle"
             /\ pc'[j] \notin {"idle", "denied"}
             /\ RemainingOn(ledger, req'[j].user, day) = 0)
            => (/\ pc'[j] = "rejected"
                /\ ledger' = ledger
                /\ sent' = sent
                /\ worker_task' = worker_task
                /\ heartbeat_task' = heartbeat_task)]_vars

\* C2 witness: a request was rejected while its author had DAILY_MAX
\* successes for the day.
C2_Witness ==
    \E j \in Jobs :
        /\ pc[j] = "rejected"
        /\ remaining[j] = 0
        /\ _count_success_today(ledger, req[j].user, day) >= DAILY_MAX_PARLAYS

OverlappedSuccesses(u, d) ==
    Cardinality({j \in Jobs : overlapped[j] /\ CountsAsUsed(ledger[j], u, d)})

C4_TimeoutFinalizesFailedForGood ==
    \A j \in Jobs :
        TimedOut(j) =>
            /\ ledger[j].status = "failed"
            /\ RemainingOn(ledger, req[j].user, today[j]) = remaining[j]

\* C4 witness: the job timed out, its worker thread returned afterwards, and
\* the row is failed.
C4_Witness ==
    \E j \in Jobs :
        /\ TimedOut(j)
        /\ thread[j] = "returned_late"
        /\ pc[j] = "done"
        /\ ledger[j].status = "failed"

\* C5: the terminal status emitted when the deadline fires has the phase
\* TimedOut, not the phase Failed of worker errors.
C5_TimeoutEmitsTimedOut ==
    \A j \in Jobs :
        TimedOut(j) => (\A i \in 1..Len(sent[j]) :
                          sent[j][i].phase \in Terminal => sent[j][i].phase = "TimedOut")

\* C6: every job whose row was written makes exactly one terminal status
\* emission over its life, and it is the last status emitted.
C6_ExactlyOneTerminalEmission ==
    \A j \in Jobs :
        /\ TerminalCount(j) <= 1
        /\ Over(j) => /\ TerminalCount(j) = 1
                      /\ sent[j][Len(sent[j])].phase \in Terminal

\* C7: the heartbeat issues no Running status once the worker has resolved,
\* and no Running edit is applied to the status message after the Processing
\* or the terminal edit of the job was applied.
C7_NoRunningAfterWorkerResolved ==
    [][\A j \in Jobs :
         /\ (worker_task[j] \in {"done", "raised", "cancelled"} /\ sent'[j] # sent[j])
              => sent'[j][Len(sent'[j])].phase # "Running"
         /\ shown[j] \in ({"Processing"} \cup Terminal) => shown'[j] # "Running"]_vars

\* C8: when strict validation of the worker's output failed, the row is
\* finalised failed and the terminal status is Failed, salvage result or not.
C8_ValidationFailureIsFailed ==
    \A j \in Jobs :
        (/\ worker_task[j] = "done"
         /\ StrictValidationFailed(worker_result[j])
         /\ pc[j] \in {"dm_result", "final_status", "done"})
        => /\ ledger[j].status = "failed"
           /\ "Complete" \notin Phases(j)

\* C9: an exception raised by the worker task is caught by the command: the
\* row is finalised failed, a terminal Failed status is emitted and the
\* exception does not leave the command.
C9_WorkerExceptionIsCaught ==
    \A j \in Jobs :
        (worker_task[j] = "raised" /\ pc[j] \notin {"wait_for", "cancelled"})
        => /\ pc[j] # "crashed"
           /\ ledger[j].status = "failed"
           /\ "Failed" \in Phases(j)

\* C10: no row stays pending: when the command of a job has ended, on any
\* path after the reservation, its row is success or failed.
C10_NoRowStaysPending ==
    \A j \in Jobs :
        Over(j) => ledger[j].status \in {"success", "failed"}

\* C11: the ledger holds at most one record per job_id (the table is keyed
\* by job_id) and a record that is success or failed keeps that status in
\* every later step, whatever Reserve and Finalize operations follow, a
\* Reserve that draws the job_id of an existing record included.
C11_RecordStatusIsMonotone ==
    [][\A id \in JobIds :
         (ledger[id] # NoRow /\ ledger[id].status \in {"success", "failed"})
         => (ledger'[id] # NoRow /\ ledger'[id].status = ledger[id].status)]_vars

\* The step is a finalize of job j: the ledger write of the timeout handler
\* (line 320) or of the finalisation (lines 371, 376).
FinalizeStep(j) ==
    \/ pc[j] = "wait_for" /\ pc'[j] = "timeout_status"
    \/ pc[j] = "processing_status" /\ pc'[j] \in {"dm_result", "final_status"}

\* the status that finalize writes
FinalizeOutcome(j) ==
    IF pc[j] = "wait_for" THEN TimeoutStatus ELSE FinalStatus(worker_result[j])

\* C12: a finalize of a record that holds the other terminal status leaves
\* the stored status as it is (the conflict is reported, not written).
C12_ConflictingFinalizeKeepsStatus ==
    [][\A j \in Jobs :
         (/\ FinalizeStep(j)
          /\ ledger[job_id[j]] # NoRow
          /\ ledger[job_id[j]].status \in {"success", "failed"}
          /\ ledger[job_id[j]].status # FinalizeOutcome(j))
         => ledger'[job_id[j]].status = ledger[job_id[j]].status]_vars

\* External call attempts the worker thread of job j has started.
Attempts(j) == IF thread[j] = "none" \/ NoQuery(req[j].query) THEN 0 ELSE attempt[j] + 1

\* The worker thread of job j has left run_deep_research.
ThreadOver(j) == thread[j] \in {"returned", "returned_late"}

\* C13: once the worker task is cancelled (by the deadline or with the job),
\* the worker thread starts no further attempt and begins no backoff wait.
C13_NoAttemptAfterCancellation ==
    [][\A j \in Jobs :
         worker_task[j] = "cancelled"
         => (attempt'[j] = attempt[j] /\ sleeps'[j] = sleeps[j])]_vars

\* C14: the worker makes at most 3 attempts, each attempt after the first
\* follows an attempt that raised, the response of the first attempt that
\* succeeds is returned with no further attempt, and after 3 failed attempts
\* the one error returned carries the last exception raised.
C14_AtMostThreeAttempts ==
    \A j \in Jobs :
        /\ Attempts(j) <= 3
        /\ Len(errors[j]) <= 3
        /\ attempt[j] <= Len(errors[j])
        /\ worker_result[j].kind \in {r.kind : r \in WorkerReturns}
             => (Len(errors[j]) = attempt[j] /\ thread[j] = "returned")
        /\ Len(errors[j]) = 3 => thread[j] # "calling"
        /\ worker_result[j].kind = "request_failed"
             => /\ Len(errors[j]) = 3
                /\ thread[j] = "returned"
                /\ worker_result[j].text = <<"Deep Research request failed: ", errors[j][3]>>

\* C14 witness: the worker returned the request error after three failed
\* attempts, the last exception differing from the first.
C14_Witness ==
    \E j \in Jobs :
        /\ worker_result[j].kind = "request_failed"
        /\ Attempts(j) = 3
        /\ errors[j][1] # errors[j][3]

\* C15: a run of k attempts makes k-1 waits, none after the last attempt,
\* and the wait after failed attempt i (from 0) is 2^i s + 0.1*i s.
C15_BackoffOnlyBetweenAttempts ==
    \A j \in Jobs :
        /\ \A i \in 1..Len(sleeps[j]) : sleeps[j][i] = 10 * (2 ^ (i - 1)) + (i - 1)
        /\ (ThreadOver(j) /\ Attempts(j) > 0) => Len(sleeps[j]) = Attempts(j) - 1

\* C16: when the worker resolved with an error and the command finalised
\* the job, the row is failed, the result embed carries the worker's error
\* text, the one terminal status emitted is Failed, and the user's Remaining
\* is what the limit check read.
C16_WorkerErrorFinalizesFailed ==
    \A j \in Jobs :
        (/\ worker_task[j] = "done"
         /\ worker_result[j].err
         /\ pc[j] \in {"dm_result", "final_status", "done"})
        => /\ ledger[j].status = "failed"
           /\ final_emb[j] = [shows |-> "Error", text |-> worker_result[j].text]
           /\ "Complete" \notin Phases(j)
           /\ pc[j] \in {"final_status", "done"}
                => (TerminalCount(j) = 1 /\ sent[j][Len(sent[j])].phase = "Failed")
           /\ RemainingOn(ledger, req[j].user, today[j]) = remaining[j]

\* C16 witness: the retries were exhausted, the command ended, and the
\* status message shows Failed.
C16_Witness ==
    \E j \in Jobs :
        /\ worker_result[j].kind = "request_failed"
        /\ pc[j] = "done"
        /\ shown[j] = "Failed"
        /\ ledger[j].status = "failed"
        /\ final_emb[j].text = <<"Deep Research request failed: ", last_err[j]>>

\* The leg validates by itself.
ConfidenceOk(leg) == _conf_ok(leg.confidence)

\* A leg as strict validation stores it.
Stored(leg) == [leg EXCEPT !.confidence = NormalConfidence(leg.confidence)]

\* The legs of the response that validate one by one, in their order.
ValidLegs(legs) ==
    LET kept == SelectSeq(legs, ConfidenceOk)
    IN  [i \in 1..Len(kept) |-> Stored(kept[i])]

\* The parser has returned for the response.
Returned == parsed.kind # "none"

\* C17: for an object whose leg list holds valid legs and a leg with a
\* confidence outside low, medium, high, the salvage returns a result whose legs are exactly
\* the legs that validate by themselves, in their original order.
C17_SalvageKeepsValidLegs ==
    (/\ Returned
     /\ given.form = "object"
     /\ \E i \in 1..Len(given.value.parlay) : ConfidenceOk(given.value.parlay[i])
     /\ \E i \in 1..Len(given.value.parlay) : ~ConfidenceOk(given.value.parlay[i]))
    => /\ parsed.has_result
       /\ parsed.result.parlay = ValidLegs(given.value.parlay)

\* C18: whenever strict validation failed, a result is returned (with zero
\* legs if need be) together with the validation error; the outcome is
\* never "no result".
C18_SalvageNeverFails ==
    (Returned /\ parsed.kind \in {"salvaged", "salvage_failed"})
    => (parsed.has_result /\ parsed.err)

\* C19: a response that is a JSON array of leg objects yields a valid
\* result with one leg per element, the confidence normalised, and
\* rationales = [], risks = "", sources = [].
C19_TopLevelArrayIsWrapped ==
    (/\ Returned
     /\ given.form = "array"
     /\ Len(given.value.parlay) >= 1
     /\ \A i \in 1..Len(given.value.parlay) : ConfidenceOk(given.value.parlay[i]))
    => /\ parsed.kind = "valid"
       /\ parsed.result = [EmptyResult EXCEPT !.parlay = ValidLegs(given.value.parlay)]

\* C20: a well-formed object that satisfies the schema, whatever characters
\* its texts hold, comes back from extraction and validation as a result
\* equal to it field for field.
C20_RoundTrip ==
    (/\ Returned
     /\ given.form = "object"
     /\ \A i \in 1..Len(given.value.parlay) : given.value.parlay[i].confidence \in Confidences)
    => /\ parsed.kind = "valid"
       /\ parsed.result = given.value

\* What run_deep_research returns for the object written as minified JSON.
OfCleanText(r) == ParseAndValidate(DumpResult(r))

\* C21: for an object that satisfies the schema and is accepted when written
\* as clean JSON, the same text with one comma before its closing brace and
\* wrapped in a code fence is accepted too and gives the same result.
C21_FencedEqualsClean ==
    (/\ Returned
     /\ given.form = "fenced"
     /\ \A i \in 1..Len(given.value.parlay) : ConfidenceOk(given.value.parlay[i])
     /\ OfCleanText(given.value).kind = "valid")
    => /\ parsed.kind = "valid"
       /\ parsed.result = OfCleanText(given.value).result

\* json.dumps of a parsed value, with separators (",", ":")
RECURSIVE DumpJson(_)
DumpJson(x) ==
    CASE x.t = "str" -> DumpStr(x.v)
      [] x.t = "num" -> x.v
      [] x.t = "null" -> <<"null">>
      [] x.t = "list" ->
            <<"[">> \o Joined([i \in 1..Len(x.v) |-> DumpJson(x.v[i])]) \o <<"]">>
      [] x.t = "dict" ->
            <<"{">> \o Joined([i \in 1..Len(x.v) |->
                                 DumpStr(x.v[i].k) \o <<":">> \o DumpJson(x.v[i].val)])
            \o <<"}">>

\* The text of what extraction gives for a text ("raises" where it raises).
ExtractedText(text) ==
    The({ IF x.ok THEN DumpJson(x.val) ELSE <<"raises">> :
          x \in {_extract_json_from_text(text)} })

\* C22: extraction is idempotent: where it gives a value for the response,
\* it gives that same value for the value written as JSON.
C22_ExtractIsIdempotent ==
    (Returned /\ ExtractedText(raw) # <<"raises">>)
    => ExtractedText(ExtractedText(raw)) = ExtractedText(raw)

\* What a confidence is to be stored as: low, medium or high once white
\* space around it is dropped and its letters are lowered, <<>> where that
\* is none of the three.
NormalForm(v) ==
    CASE v \in {<<"high">>, <<"HIGH">>} -> <<"high">>
      [] v \in {<<"medium">>, <<" ", "Medium", " ">>} -> <<"medium">>
      [] v = <<"low">> -> <<"low">>
      [] OTHER -> <<>>

\* C23: strict validation accepts an object exactly when the confidence of
\* every leg is low, medium or high after trimming and lower-casing, and the
\* result then stores each confidence in that normal form.
C23_ConfidenceIsNormalized ==
    (Returned /\ given.form = "object" /\ parsed.kind # "malformed")
    => /\ parsed.kind = "valid"
            <=> \A i \in 1..Len(given.value.parlay) :
                    NormalForm(given.value.parlay[i].confidence) # <<>>
       /\ parsed.kind = "valid"
            => /\ Len(parsed.result.parlay) = Len(given.value.parlay)
               /\ \A i \in 1..Len(given.value.parlay) :
                      parsed.result.parlay[i].confidence
                          = NormalForm(given.value.parlay[i].confidence)

\* C23 witness: an object with a leg of confidence " Medium " and a leg of
\* confidence HIGH was accepted and stores medium and high.
C23_Witness ==
    /\ parsed.kind = "valid"
    /\ given.form = "object"
    /\ \E i, k \in 1..Len(given.value.parlay) :
          /\ given.value.parlay[i].confidence = <<" ", "Medium", " ">>
          /\ parsed.result.parlay[i].confidence = <<"medium">>
          /\ given.value.parlay[k].confidence = <<"HIGH">>
          /\ parsed.result.parlay[k].confidence = <<"high">>

\* the markets of the data model
Markets == {<<"moneyline">>, <<"spread">>, <<"total">>, <<"player-prop">>}

\* C24: no result that is returned holds a leg whose market is outside
\* moneyline, spread, total, player-prop or whose selection is empty.
C24_LegSchemaIsEnforced ==
    (Returned /\ parsed.has_result)
    => \A i \in 1..Len(parsed.result.parlay) :
           /\ parsed.result.parlay[i].market \in Markets
           /\ parsed.result.parlay[i].selection # <<>>

\* The finalize of job j writes Failed: the deadline fired, or the worker
\* returned an error.
FinalizesFailed(j) ==
    FinalizeStep(j) /\ (pc[j] = "wait_for" \/ worker_result[j].err)

\* the ledger without the record of id
Without(l, id) == [l EXCEPT ![id] = NoRow]

\* C25: in every ledger state, Reserve with a fresh job_id followed at once
\* by Finalize(Failed) leaves the Remaining of every user and day as it was
\* before the Reserve; and when a job is finalized Failed, Remaining is
\* what it is for the ledger without the job's record.
C25_ReserveThenFailedKeepsRemaining ==
    /\ [](\A id \in Jobs, u \in Users, d \in Days :
            ledger[id] = NoRow
            => \A v \in Users, e \in Days :
                   RemainingOn(_set_job_status(_create_pending_job(ledger, id, u, d),
                                               id, "failed"), v, e)
                       = RemainingOn(ledger, v, e))
    /\ [][\A j \in Jobs :
            FinalizesFailed(j)
            => \A v \in Users, e \in Days :
                   RemainingOn(ledger', v, e) = RemainingOn(Without(ledger, job_id[j]), v, e)]_vars

\* C25 witness: a job was reserved and finalized Failed for a user with
\* successes that day, and the user's Remaining is what the job's limit
\* check read.
C25_Witness ==
    \E j \in Jobs :
        /\ pc[j] = "done"
        /\ ledger[j] # NoRow
        /\ ledger[j].status = "failed"
        /\ remaining[j] \in 1..(DAILY_MAX_PARLAYS - 1)
        /\ RemainingOn(ledger, req[j].user, today[j]) = remaining[j]

\* the place of a status in the order Waiting, Running, Processing, terminal
Rank(phase) ==
    CASE phase = "Waiting" -> 1
      [] phase = "Running" -> 2
      [] phase = "Processing" -> 3
      [] phase \in Terminal -> 4

\* C26: the statuses a job emits never move backward in the order Waiting,
\* Running, Processing, terminal, and nothing is emitted after the terminal
\* status.
C26_EmissionOrder ==
    \A j \in Jobs :
        \A i, k \in 1..Len(sent[j]) :
            i < k => /\ Rank(sent[j][i].phase) <= Rank(sent[j][k].phase)
                     /\ sent[j][i].phase \notin Terminal

\* C26 witness: a job emitted Waiting, Waiting, Running, Processing and
\* Complete, in that order.
C26_Witness ==
    \E j \in Jobs :
        [i \in 1..Len(sent[j]) |-> sent[j][i].phase]
            = <<"Waiting", "Waiting", "Running", "Processing", "Complete">>

\* C27: a job that has emitted Processing is one whose worker resolved with
\* a response to validate: its deadline did not fire and its external call
\* did not end in the request error.
C27_ProcessingOnlyOnSuccess ==
    \A j \in Jobs :
        "Processing" \in Phases(j)
        => /\ worker_task[j] = "done"
           /\ worker_result[j].kind # "request_failed"

\* C28: whether its non-terminal status emissions were delivered or failed,
\* a job whose record was written and whose command has ended (not by its
\* cancellation, not by an exception of the worker) has run its worker,
\* finalized its record and made its one terminal emission.
C28_LostStatusChangesNothing ==
    \A j \in Jobs :
        (/\ ledger[j] # NoRow
         /\ pc[j] \in {"done", "crashed"}
         /\ worker_task[j] # "raised")
        => /\ worker_task[j] # "none"
           /\ ledger[j].status \in {"success", "failed"}
           /\ TerminalCount(j) = 1

\* The step is a ledger operation of job j: its Reserve or its Finalize.
LedgerStep(j) == (pc[j] = "defer" /\ pc'[j] = "initial_status") \/ FinalizeStep(j)

\* C29: with the jobs holding different job_ids, every change of the ledger
\* is made by one Reserve or Finalize and touches the record of that job's
\* job_id only: the other records keep every field, and a record that
\* existed keeps its user_id and reference date.
C29_LedgerFrame ==
    [][\A id \in JobIds :
         ledger'[id] # ledger[id]
         => /\ \E j \in Jobs : LedgerStep(j) /\ job_id'[j] = id
            /\ \A other \in JobIds \ {id} : ledger'[other] = ledger[other]
            /\ ledger'[id] # NoRow
            /\ ledger[id] # NoRow
                 => /\ ledger'[id].user = ledger[id].user
                    /\ ledger'[id].et_date = ledger[id].et_date]_vars

\* C29 witness: the records of two jobs of different users exist side by
\* side, one finalized success and the other finalized failed, each with
\* the user and date of its own reservation.
C29_Witness ==
    \E j, k \in Jobs :
        /\ j # k
        /\ ledger[j] # NoRow /\ ledger[k] # NoRow
        /\ ledger[j].user # ledger[k].user
        /\ ledger[j].status = "success" /\ ledger[k].status = "failed"
        /\ ledger[j].user = req[j].user /\ ledger[j].et_date = today[j]
        /\ ledger[k].user = req[k].user /\ ledger[k].et_date = today[k]

\* C30: a response with no text, absent or empty, gives the empty-response
\* error; the malformed-JSON error is given only for a text that is not
\* empty.
C30_NoTextIsEmptyResponse ==
    Returned
    => /\ (~has_text \/ raw = <<>>) => parsed.kind = "empty"
       /\ parsed.kind = "malformed" => (has_text /\ raw # <<>>)

\* C31: when the call with structured output is rejected, the call without
\* it is made in the same attempt; a response it returns is returned by the
\* worker with no request error and no further attempt, and an exception it
\* raises is the one failure of that attempt, followed by the wait of that
\* attempt and then by the next attempt (or by the request error after the
\* last).
C31_FallbackWithinAttempt ==
    [][\A j \in Jobs :
         /\ (thread[j] = "calling" /\ thread'[j] = "fallback")
              => (attempt'[j] = attempt[j] /\ errors'[j] = errors[j] /\ sleeps'[j] = sleeps[j])
         /\ (thread[j] = "fallback" /\ thread'[j] # "fallback")
              => \/ /\ thread'[j] \in {"returned", "returned_late"}
                    /\ worker_result'[j].kind # "request_failed"
                    /\ attempt'[j] = attempt[j] /\ errors'[j] = errors[j]
                    /\ sleeps'[j] = sleeps[j]
                 \/ /\ thread'[j] = "sleeping"
                    /\ attempt'[j] = attempt[j]
                    /\ Len(errors'[j]) = Len(errors[j]) + 1
                    /\ Len(errors'[j]) = attempt[j] + 1
                    /\ last_err'[j] = errors'[j][Len(errors'[j])]
                    /\ sleeps'[j] = Append(sleeps[j], 10 * (2 ^ attempt[j]) + attempt[j])
         /\ (thread[j] = "sleeping" /\ thread'[j] # "sleeping")
              => IF attempt[j] + 1 < 3
                 THEN thread'[j] = "calling" /\ attempt'[j] = attempt[j] + 1
                 ELSE thread'[j] \in {"returned", "returned_late"}]_vars

\* C31 witness: after one failed attempt, the second attempt went on to the
\* call without structured output and the worker returned its response.
C31_Witness ==
    \E j \in Jobs :
        /\ fell_back[j]
        /\ Len(errors[j]) = 1
        /\ attempt[j] = 1
        /\ thread[j] = "returned"
        /\ worker_result[j].kind = "valid"

\* the non-terminal statuses job j has emitted, in their order
NonTerminal(j) ==
    LET IsNonTerminal(e) == e.phase \notin Terminal IN SelectSeq(sent[j], IsNonTerminal)

\* C32: across the Waiting, Running and Processing statuses of a job, those
\* of the command and those of the heartbeat, each carries a frame index
\* strictly greater than the one before it.
C32_FrameIndexAdvances ==
    \A j \in Jobs :
        \A i \in 1..(Len(NonTerminal(j)) - 1) :
            NonTerminal(j)[i].frame < NonTerminal(j)[i + 1].frame

\* C32 witness: a job emitted Waiting, Waiting, Running and Processing with
\* the frame indexes 0, 1, 2, 3.
C32_Witness ==
    \E j \in Jobs :
        NonTerminal(j) = << [phase |-> "Waiting", frame |-> 0],
                            [phase |-> "Waiting", frame |-> 1],
                            [phase |-> "Running", frame |-> 2],
                            [phase |-> "Processing", frame |-> 3] >>

\* C33: once a job has emitted its terminal status, its record is success
\* exactly when that status is Complete, which is exactly when the worker
\* returned with no error; and its record is failed exactly when that
\* status is Failed, the status of the worker's error and of the timeout.
C33_LedgerAgreesWithTerminalStatus ==
    \A j \in Jobs :
        TerminalCount(j) >= 1
        => /\ ledger[j] # NoRow
           /\ ledger[j].status = "success" <=> "Complete" \in Phases(j)
           /\ "Complete" \in Phases(j) <=> (worker_task[j] = "done" /\ ~worker_result[j].err)
           /\ ledger[j].status = "failed" <=> "Failed" \in Phases(j)
           /\ "Failed" \in Phases(j)
                <=> (worker_task[j] = "cancelled" \/ (worker_task[j] = "done" /\ worker_result[j].err))

\* C33 witness: the worker returned a result with no error, the command
\* ended, the record is success and the status shown is Complete.
C33_Witness ==
    \E j \in Jobs :
        /\ pc[j] = "done"
        /\ worker_result[j].result /\ ~worker_result[j].err
        /\ ledger[j].status = "success"
        /\ shown[j] = "Complete"
        /\ Phases(j) = {"Waiting", "Processing", "Complete"}

\* C34: in every state where a job has emitted a terminal status, or is
\* past its finalisation and delivering its result, its record holds
\* success or failed, whether the deliveries succeed or fail.
C34_LedgerFinalizedBeforeTerminal ==
    \A j \in Jobs :
        (\/ TerminalCount(j) >= 1
         \/ pc[j] \in {"timeout_status", "timeout_result", "dm_result", "final_status", "done"})
        => /\ ledger[j] # NoRow
           /\ ledger[j].status \in {"success", "failed"}

\* C34 witness: the command ended with its final status edit not delivered
\* (the message still shows Processing), and the record is success.
C34_Witness ==
    \E j \in Jobs :
        /\ pc[j] = "done"
        /\ "Complete" \in Phases(j)
        /\ shown[j] = "Processing"
        /\ ledger[j].status = "success"

\* No job of user u made its limit check while another job of u was between
\* its own limit check and its ledger write.
NeverOverlapped(u) == \A j \in Jobs : req[j].user = u => ~overlapped[j]

\* C35: for a user whose jobs never overlapped, the success records of every
\* reference day number at most DAILY_MAX.
C35_NoOverlapNoExcess ==
    \A u \in Users :
        NeverOverlapped(u)
        => \A d \in Days : _count_success_today(ledger, u, d) <= DAILY_MAX_PARLAYS

\* C35 witness: a user's job was finalized success and made the day's count
\* DAILY_MAX, and the user's next request, made after it, was rejected.
C35_Witness ==
    \E j, k \in Jobs :
        /\ j < k
        /\ req[j].user = req[k].user
        /\ NeverOverlapped(req[j].user)
        /\ pc[j] = "done" /\ ledger[j].status = "success"
        /\ pc[k] = "rejected"
        /\ _count_success_today(ledger, req[j].user, today[j]) = DAILY_MAX_PARLAYS

\* C36: a job whose query is empty or only white space makes no external
\* call: its thread never enters a call or a backoff, no attempt, exception
\* or wait is counted, the worker resolves with the error of the missing
\* query and nothing else, and once the command has ended the row is failed
\* and the user's Remaining is what the limit check read.
C36_NoQueryNoCall ==
    \A j \in Jobs :
        (strip(req[j].query, Whitespace) = <<>> /\ thread[j] # "none")
        => /\ thread[j] \notin InCall \cup {"sleeping"}
           /\ attempt[j] = 0 /\ errors[j] = <<>> /\ sleeps[j] = <<>> /\ ~fell_back[j]
           /\ worker_task[j] # "raised"
           /\ worker_task[j] = "done"
                => /\ worker_result[j].err /\ ~worker_result[j].result
                   /\ worker_result[j].text =
                        <<"Please specify what you want researched (teams, props, angles).">>
           /\ pc[j] = "done"
                => /\ ledger[j].status = "failed"
                   /\ "Complete" \notin Phases(j)
                   /\ RemainingOn(ledger, req[j].user, today[j]) = remaining[j]

\* C36 witness: a query of one blank went through the command: the worker
\* resolved without a call, the status shown is Failed and the row is failed.
C36_Witness ==
    \E j \in Jobs :
        /\ req[j].query = <<" ">>
        /\ thread[j] = "returned"
        /\ worker_task[j] = "done"
        /\ pc[j] = "done"
        /\ shown[j] = "Failed"
        /\ ledger[j].status = "failed"
        /\ final_emb[j].text = <<"Please specify what you want researched (teams, props, angles).">>

====
